---- MODULE Spec2Model ----
(***************************************************************************)
(* A model of the CreditDB Go client: the error taxonomy (errors.go), the  *)
(* taxonomy-classifying client (README + client source, "part_000"), the   *)
(* older client that returns ad hoc errors (creditdb.go), and the          *)
(* constructor's exponential-backoff health gate.                          *)
(*                                                                         *)
(* Time is counted in milliseconds.  The HTTP transport, the JSON codec    *)
(* and the backoff library are collaborators: the transport's answer to a  *)
(* request is chosen by the environment, JSON documents are abstract       *)
(* values decoded the way encoding/json decodes them, and backoff.Retry is *)
(* the loop of cenkalti/backoff v4.                                        *)
(***************************************************************************)
EXTENDS Integers, Sequences, FiniteSets, TLC

VARIABLES
    c,                \* the *CreditDB the caller holds (nil or an object)
    ret,              \* the record of the last call: operation, inputs, result
    wire,             \* the requests the last call handed to the transport
    pc,               \* NewClient's position: Probing, Backoff, Ready, Failed, Panic
    now,              \* b.GetElapsedTime() inside NewClient: ms since
                      \* backoff.Retry reset b (0 when NewClient is not running)
    currentInterval,  \* b.currentInterval inside NewClient, ms (0 likewise)
    probeVia          \* the http.Client the last health probe was sent on

vars == <<c, ret, wire, pc, now, currentInterval, probeVia>>

----------------------------------------------------------------------------
(* Bounds of the model *)

\* pages range over 0..MaxPage
MaxPage == 2
\* a Page Result body carries at most MaxEntries records
MaxEntries == 2

----------------------------------------------------------------------------
(* errors.go *)

CategoryNotFound == "NotFound"
CategoryBadRequest == "BadRequest"
CategoryTimeout == "Timeout"
CategoryServiceUnavailable == "ServiceUnavailable"
CategoryInternalError == "InternalError"

\* An error interface value: its dynamic type, and the fields of *Error.
\* dyn = "nil" is the nil error; dyn = "*Error" is a Domain Error; any other
\* dyn is an error of another type (no Category field: "" stands for none).
NoError == [dyn |-> "nil", Message |-> "", Category |-> ""]

NewError(message, category) ==
    [dyn |-> "*Error", Message |-> message, Category |-> category]

ErrNotFound == NewError("resource not found", CategoryNotFound)
ErrBadRequest == NewError("bad request", CategoryBadRequest)
ErrInternalError == NewError("internal server error", CategoryInternalError)
ErrTimeout == NewError("timeout", CategoryTimeout)
ErrServiceUnavailable == NewError("service unavailable", CategoryServiceUnavailable)

----------------------------------------------------------------------------
(* Configuration *)

defaultHost == "http://localhost:5622"
defaultPage == 0

\* Hosts the caller may configure.  url.Parse rejects the last one (a space
\* in the host name), so http.NewRequestWithContext fails on it.
Hosts == {defaultHost, "http://db:5622", "http://bad host"}
Pages == 0..MaxPage
Keys == {"", "a"}
Values == {"", "x"}

\* the nil *CreditDB
NilClient == [ptr |-> "nil",
              config |-> [host |-> "", currentPage |-> 0],
              client |-> "nil"]

\* &CreditDB{config: config{host: defaultHost, currentPage: defaultPage}, client: cl}
NewCreditDB(cl) == [ptr |-> "obj",
                    config |-> [host |-> defaultHost, currentPage |-> defaultPage],
                    client |-> cl]

----------------------------------------------------------------------------
(* JSON documents, and encoding/json's decoding of them *)

Absent == [t |-> "absent", v |-> 0]
JNull == [t |-> "null", v |-> 0]
JStr(s) == [t |-> "string", v |-> s]
JNum(n) == [t |-> "number", v |-> n]
JArr(a) == [t |-> "array", v |-> a]

Line(key, value) == [Key |-> key, Value |-> value]
ZeroLine == Line("", "")

\* A response body: its top-level syntax and, for an object, the members
\* the client's types name (any other member is ignored by the decoder).
Doc(syntax, key, value, status, pagenumber, result, ping) ==
    [syntax |-> syntax, key |-> key, value |-> value, status |-> status,
     pagenumber |-> pagenumber, result |-> result, ping |-> ping]

Obj(key, value, status, pagenumber, result, ping) ==
    Doc("object", key, value, status, pagenumber, result, ping)

Bare(syntax) == Doc(syntax, Absent, Absent, Absent, Absent, Absent, Absent)

\* the elements a "result" array may hold: {"key":..,"value":..} objects
Elements == {[key |-> JStr("a"), value |-> JStr("x")],
             [key |-> JStr("b"), value |-> JStr("y")]}

RECURSIVE SeqsUpTo(_, _)
SeqsUpTo(S, n) ==
    IF n = 0 THEN {<<>>}
    ELSE LET shorter == SeqsUpTo(S, n - 1)
         IN shorter \cup {Append(s, e) : s \in {q \in shorter : Len(q) = n - 1}, e \in S}

\* bodies with no members: an empty body, bad syntax, and the JSON values
\* null and []
BareBodies == {Bare("eof"), Bare("invalid"), Bare("null"), Bare("array")}

PageBodies ==
    {Obj(Absent, Absent, st, JNum(1), JArr(a), Absent) :
        st \in {JStr("OK"), JStr("ERROR")},
        a \in SeqsUpTo(Elements, MaxEntries)}
    \cup {Obj(Absent, Absent, JStr("OK"), JNum(-1), JArr(<<>>), Absent),
          Obj(Absent, Absent, JStr("OK"), Absent, JNull, Absent),
          Obj(Absent, Absent, JStr("OK"), JNum(0), JStr("oops"), Absent),
          Obj(Absent, Absent, JNum(7), JNum(0), JArr(<<>>), Absent),
          Obj(Absent, Absent, JStr("OK"), JNum(0),
              JArr(<<[key |-> JStr("b"), value |-> JNum(1)]>>), Absent)}
    \cup BareBodies

LineBodies ==
    {Obj(k, v, Absent, Absent, Absent, Absent) :
        k \in {JStr("a"), JNum(7)},
        v \in {JStr("x"), JNull}}
    \cup BareBodies

PingBodies ==
    {Obj(Absent, Absent, Absent, Absent, Absent, p) :
        p \in {JStr("pong"), JNum(1), Absent}}
    \cup BareBodies

\* bodies for the operations that close the body unread
UnreadBodies == {Bare("eof"), Obj(Absent, Absent, JStr("OK"), Absent, Absent, Absent)}

\* the decoder reads one JSON value: an empty body is io.EOF, bad syntax a
\* SyntaxError
Readable(body) == body.syntax \notin {"eof", "invalid"}

\* a string-typed struct field: null and absent leave it, a string sets it,
\* anything else is an UnmarshalTypeError
StringFieldOK(jv) == jv.t \in {"absent", "null", "string"}
StringField(jv) == IF jv.t = "string" THEN jv.v ELSE ""

\* json.NewDecoder(body).Decode(&data) with data a Line
DecodeLine(body) ==
    IF ~Readable(body) THEN [ok |-> FALSE, data |-> ZeroLine]
    ELSE IF body.syntax = "null" THEN [ok |-> TRUE, data |-> ZeroLine]
    ELSE IF body.syntax # "object" THEN [ok |-> FALSE, data |-> ZeroLine]
    ELSE [ok |-> StringFieldOK(body.key) /\ StringFieldOK(body.value),
          data |-> Line(StringField(body.key), StringField(body.value))]

ElementOK(e) == StringFieldOK(e.key) /\ StringFieldOK(e.value)
ElementLine(e) == Line(StringField(e.key), StringField(e.value))

\* a []Line field
LinesFieldOK(jv) ==
    \/ jv.t \in {"absent", "null"}
    \/ jv.t = "array" /\ \A i \in 1..Len(jv.v) : ElementOK(jv.v[i])
LinesField(jv) ==
    IF jv.t = "array" THEN [i \in 1..Len(jv.v) |-> ElementLine(jv.v[i])] ELSE <<>>

\* a uint field
UintFieldOK(jv) == jv.t \in {"absent", "null"} \/ (jv.t = "number" /\ jv.v >= 0)
UintField(jv) == IF jv.t = "number" /\ jv.v >= 0 THEN jv.v ELSE 0

ZeroPage == [Status |-> "", Page |-> 0, Result |-> <<>>]

\* json.NewDecoder(body).Decode(&response) with response a Page
DecodePage(body) ==
    IF ~Readable(body) THEN [ok |-> FALSE, data |-> ZeroPage]
    ELSE IF body.syntax = "null" THEN [ok |-> TRUE, data |-> ZeroPage]
    ELSE IF body.syntax # "object" THEN [ok |-> FALSE, data |-> ZeroPage]
    ELSE [ok |-> /\ StringFieldOK(body.status)
                 /\ UintFieldOK(body.pagenumber)
                 /\ LinesFieldOK(body.result),
          data |-> [Status |-> StringField(body.status),
                    Page |-> UintField(body.pagenumber),
                    Result |-> LinesField(body.result)]]

\* json.NewDecoder(body).Decode(&response) with response a
\* map[string]interface{}, then response["ping"].(string)
DecodePing(body) ==
    IF ~Readable(body) \/ body.syntax \notin {"null", "object"}
    THEN [ok |-> FALSE, found |-> FALSE, pingValue |-> ""]
    ELSE [ok |-> TRUE,
          found |-> body.syntax = "object" /\ body.ping.t = "string",
          pingValue |-> IF body.syntax = "object" /\ body.ping.t = "string"
                        THEN body.ping.v ELSE ""]

----------------------------------------------------------------------------
(* The transport: what c.client.Do(req) may answer *)

StatusOK == 200
StatusNotFound == 404

StatusCodes == {StatusOK, 201, StatusNotFound, 500}

\* why Do returned an error
NetworkErrors == {"connection refused", "timeout awaiting response headers"}
\* why Do returned an error when the caller's context ended the request
ContextErrors == {"context canceled", "context deadline exceeded"}
TransportErrors == NetworkErrors \cup ContextErrors

Response(err, status, body) == [err |-> err, StatusCode |-> status, Body |-> body]

\* what the environment may answer a request with: one of the errors, or a
\* status and a body drawn from bodies
Answers(errors, bodies) ==
    {Response(e, 0, Bare("eof")) : e \in errors}
    \cup {Response("", s, b) : s \in StatusCodes, b \in bodies}

\* the answers to a request that carries the caller's context
Responses(bodies) == Answers(TransportErrors, bodies)

\* the body json.Marshal makes of a request struct: the struct's fields
\* under their json tags
NoBody == [present |-> FALSE, key |-> Absent, value |-> Absent, page |-> Absent]
MarshalSet(key, value, page) ==
    [present |-> TRUE, key |-> JStr(key), value |-> JStr(value), page |-> JNum(page)]
MarshalKeyPage(key, page) ==
    [present |-> TRUE, key |-> JStr(key), value |-> Absent, page |-> JNum(page)]
MarshalPage(page) ==
    [present |-> TRUE, key |-> Absent, value |-> Absent, page |-> JNum(page)]

\* url.Parse inside http.NewRequestWithContext
URLParses(host) == host # "http://bad host"

\* http.NewRequestWithContext(ctx, method, host+path, body), and the
\* Content-Type header the operation then sets on it
Request(method, host, path, body, contentType) ==
    [method |-> method, host |-> host, path |-> path, body |-> body,
     ContentType |-> contentType]

\* the requests of a call, tagged with the http.Client they were sent on
Sent(cl, req) == <<[via |-> cl, req |-> req]>>

\* what an operation hands back: its error, its value, what it sent
NoOut == [line |-> ZeroLine, isNil |-> TRUE, lines |-> <<>>, str |-> "",
          ok |-> FALSE, num |-> 0]
Result(err, out, sent) == [err |-> err, out |-> out, wire |-> sent]

----------------------------------------------------------------------------
(* The client that classifies into the taxonomy.  Each operation is a      *)
(* function of the receiver cl, the arguments, and the transport's answer  *)
(* resp to the one request it may send.  json.Marshal cannot fail on these *)
(* request structs (strings and a uint), so its error branch is dead.      *)

WithHost(cl, host) ==
    [cl EXCEPT !.config.host = IF host = "" THEN cl.config.host ELSE host]

WithPage(cl, page) == [cl EXCEPT !.config.currentPage = page]

GetCurrentPage(cl) == cl.config.currentPage

\* Faulty variant of SetLine: sends the default page, not the current one.
SetLine_defaultPage(cl, key, value, resp) ==
    LET req == Request("POST", cl.config.host, "/set",
                       MarshalSet(key, value, defaultPage), "application/json")
    IN  IF key = "" \/ value = "" THEN Result(ErrBadRequest, NoOut, <<>>)
        ELSE IF ~URLParses(cl.config.host) THEN Result(ErrInternalError, NoOut, <<>>)
        ELSE IF resp.err # "" THEN Result(ErrInternalError, NoOut, Sent(cl.client, req))
        ELSE IF resp.StatusCode # StatusOK
             THEN Result(ErrBadRequest, NoOut, Sent(cl.client, req))
        ELSE Result(NoError, NoOut, Sent(cl.client, req))

SetLine(cl, key, value, resp) ==
    LET req == Request("POST", cl.config.host, "/set",
                       MarshalSet(key, value, cl.config.currentPage),
                       "application/json")
    IN  IF key = "" \/ value = "" THEN Result(ErrBadRequest, NoOut, <<>>)
        ELSE IF ~URLParses(cl.config.host) THEN Result(ErrInternalError, NoOut, <<>>)
        ELSE IF resp.err # "" THEN Result(ErrInternalError, NoOut, Sent(cl.client, req))
        ELSE IF resp.StatusCode # StatusOK
             THEN Result(ErrBadRequest, NoOut, Sent(cl.client, req))
        ELSE Result(NoError, NoOut, Sent(cl.client, req))

GetLine(cl, key, resp) ==
    LET req == Request("GET", cl.config.host, "/get",
                       MarshalKeyPage(key, cl.config.currentPage),
                       "application/json")
        dec == DecodeLine(resp.Body)
    IN  IF key = "" THEN Result(ErrBadRequest, NoOut, <<>>)
        ELSE IF ~URLParses(cl.config.host) THEN Result(ErrInternalError, NoOut, <<>>)
        ELSE IF resp.err # "" THEN Result(ErrInternalError, NoOut, Sent(cl.client, req))
        ELSE IF resp.StatusCode = StatusNotFound
             THEN Result(ErrNotFound, NoOut, Sent(cl.client, req))
        ELSE IF resp.StatusCode # StatusOK
             THEN Result(ErrBadRequest, NoOut, Sent(cl.client, req))
        ELSE IF ~dec.ok THEN Result(ErrInternalError, NoOut, Sent(cl.client, req))
        ELSE Result(NoError, [NoOut EXCEPT !.line = dec.data, !.isNil = FALSE],
                    Sent(cl.client, req))

\* Faulty variant of GetAllLines: rejects a non-200 status before it reads
\* the payload.
GetAllLines_statusFirst(cl, resp) ==
    LET req == Request("GET", cl.config.host, "/getall",
                       MarshalPage(cl.config.currentPage), "application/json")
        dec == DecodePage(resp.Body)
    IN  IF ~URLParses(cl.config.host) THEN Result(ErrInternalError, NoOut, <<>>)
        ELSE IF resp.err # "" THEN Result(ErrInternalError, NoOut, Sent(cl.client, req))
        ELSE IF resp.StatusCode # StatusOK
             THEN Result(ErrBadRequest, NoOut, Sent(cl.client, req))
        ELSE IF ~dec.ok THEN Result(ErrInternalError, NoOut, Sent(cl.client, req))
        ELSE IF dec.data.Status # "OK"
             THEN Result(ErrBadRequest, NoOut, Sent(cl.client, req))
        ELSE Result(NoError, [NoOut EXCEPT !.lines = dec.data.Result, !.isNil = FALSE],
                    Sent(cl.client, req))

GetAllLines(cl, resp) ==
    LET req == Request("GET", cl.config.host, "/getall",
                       MarshalPage(cl.config.currentPage), "application/json")
        dec == DecodePage(resp.Body)
    IN  IF ~URLParses(cl.config.host) THEN Result(ErrInternalError, NoOut, <<>>)
        ELSE IF resp.err # "" THEN Result(ErrInternalError, NoOut, Sent(cl.client, req))
        ELSE IF ~dec.ok THEN Result(ErrInternalError, NoOut, Sent(cl.client, req))
        ELSE IF dec.data.Status # "OK"
             THEN Result(ErrBadRequest, NoOut, Sent(cl.client, req))
        ELSE Result(NoError, [NoOut EXCEPT !.lines = dec.data.Result, !.isNil = FALSE],
                    Sent(cl.client, req))

DeleteLine(cl, key, resp) ==
    LET req == Request("DELETE", cl.config.host, "/delete",
                       MarshalKeyPage(key, cl.config.currentPage),
                       "application/json")
    IN  IF key = "" THEN Result(ErrBadRequest, NoOut, <<>>)
        ELSE IF ~URLParses(cl.config.host) THEN Result(ErrInternalError, NoOut, <<>>)
        ELSE IF resp.err # "" THEN Result(ErrInternalError, NoOut, Sent(cl.client, req))
        ELSE IF resp.StatusCode = StatusNotFound
             THEN Result(ErrNotFound, NoOut, Sent(cl.client, req))
        ELSE IF resp.StatusCode # StatusOK
             THEN Result(ErrBadRequest, NoOut, Sent(cl.client, req))
        ELSE Result(NoError, NoOut, Sent(cl.client, req))

\* Faulty variant of Flush: classifies a non-200 status as the other
\* operations do.
Flush_badRequest(cl, resp) ==
    LET req == Request("DELETE", cl.config.host, "/flush",
                       MarshalPage(cl.config.currentPage), "application/json")
    IN  IF ~URLParses(cl.config.host) THEN Result(ErrInternalError, NoOut, <<>>)
        ELSE IF resp.err # "" THEN Result(ErrInternalError, NoOut, Sent(cl.client, req))
        ELSE IF resp.StatusCode # StatusOK
             THEN Result(ErrBadRequest, NoOut, Sent(cl.client, req))
        ELSE Result(NoError, NoOut, Sent(cl.client, req))

Flush(cl, resp) ==
    LET req == Request("DELETE", cl.config.host, "/flush",
                       MarshalPage(cl.config.currentPage), "application/json")
    IN  IF ~URLParses(cl.config.host) THEN Result(ErrInternalError, NoOut, <<>>)
        ELSE IF resp.err # "" THEN Result(ErrInternalError, NoOut, Sent(cl.client, req))
        ELSE IF resp.StatusCode # StatusOK
             THEN Result(ErrInternalError, NoOut, Sent(cl.client, req))
        ELSE Result(NoError, NoOut, Sent(cl.client, req))

Ping(cl, resp) ==
    LET req == Request("GET", cl.config.host, "/ping", NoBody, "")
        dec == DecodePing(resp.Body)
    IN  IF ~URLParses(cl.config.host) THEN Result(ErrInternalError, NoOut, <<>>)
        ELSE IF resp.err # "" THEN Result(ErrInternalError, NoOut, Sent(cl.client, req))
        ELSE IF ~dec.ok THEN Result(ErrInternalError, NoOut, Sent(cl.client, req))
        ELSE IF ~dec.found THEN Result(ErrInternalError, NoOut, Sent(cl.client, req))
        ELSE Result(NoError, [NoOut EXCEPT !.str = dec.pingValue], Sent(cl.client, req))

Health(cl, resp) ==
    LET req == Request("GET", cl.config.host, "", NoBody, "")
    IN  IF ~URLParses(cl.config.host) THEN Result(ErrInternalError, NoOut, <<>>)
        ELSE IF resp.err # "" THEN Result(ErrInternalError, NoOut, Sent(cl.client, req))
        ELSE IF resp.StatusCode # StatusOK
             THEN Result(ErrInternalError, NoOut, Sent(cl.client, req))
        ELSE Result(NoError, NoOut, Sent(cl.client, req))

\* Faulty variant of Exists: hands every GetLine error back, NotFound too.
Exists_noTranslation(cl, key, resp) ==
    LET got == GetLine(cl, key, resp)
    IN  IF got.err # NoError
        THEN Result(got.err, [NoOut EXCEPT !.ok = FALSE], got.wire)
        ELSE Result(NoError, [NoOut EXCEPT !.ok = TRUE], got.wire)

Exists(cl, key, resp) ==
    LET got == GetLine(cl, key, resp)
    IN  IF got.err # NoError
        THEN IF got.err = ErrNotFound
             THEN Result(NoError, [NoOut EXCEPT !.ok = FALSE], got.wire)
             ELSE Result(got.err, [NoOut EXCEPT !.ok = FALSE], got.wire)
        ELSE Result(NoError, [NoOut EXCEPT !.ok = TRUE], got.wire)

----------------------------------------------------------------------------
(* Calls: the caller invokes an operation on the client it holds and the   *)
(* environment picks the transport's answer.                               *)

NoResponse == Response("", 0, Bare("eof"))

\* the record of a call that returned: what was asked, what came back, and
\* for NewClient how long the call took (ms; not measured for the others)
ReturnedAfter(took, op, key, value, host, page, resp, r) ==
    /\ ret' = [op |-> op, key |-> key, value |-> value, host |-> host,
               page |-> page, resp |-> resp, err |-> r.err, out |-> r.out,
               took |-> took]
    /\ wire' = r.wire

Returned(op, key, value, host, page, resp, r) ==
    ReturnedAfter(0, op, key, value, host, page, resp, r)

\* the caller holds a usable client
Usable == pc = "Ready" /\ c.ptr = "obj"

Call_SetLine ==
    /\ Usable
    /\ \E key \in Keys, value \in Values, resp \in Responses(UnreadBodies) :
          Returned("SetLine", key, value, "", 0, resp, SetLine(c, key, value, resp))
    /\ UNCHANGED <<c, pc, now, currentInterval, probeVia>>

Call_GetLine ==
    /\ Usable
    /\ \E key \in Keys, resp \in Responses(LineBodies) :
          Returned("GetLine", key, "", "", 0, resp, GetLine(c, key, resp))
    /\ UNCHANGED <<c, pc, now, currentInterval, probeVia>>

Call_GetAllLines ==
    /\ Usable
    /\ \E resp \in Responses(PageBodies) :
          Returned("GetAllLines", "", "", "", 0, resp, GetAllLines(c, resp))
    /\ UNCHANGED <<c, pc, now, currentInterval, probeVia>>

Call_DeleteLine ==
    /\ Usable
    /\ \E key \in Keys, resp \in Responses(UnreadBodies) :
          Returned("DeleteLine", key, "", "", 0, resp, DeleteLine(c, key, resp))
    /\ UNCHANGED <<c, pc, now, currentInterval, probeVia>>

Call_Flush ==
    /\ Usable
    /\ \E resp \in Responses(UnreadBodies) :
          Returned("Flush", "", "", "", 0, resp, Flush(c, resp))
    /\ UNCHANGED <<c, pc, now, currentInterval, probeVia>>

Call_Ping ==
    /\ Usable
    /\ \E resp \in Responses(PingBodies) :
          Returned("Ping", "", "", "", 0, resp, Ping(c, resp))
    /\ UNCHANGED <<c, pc, now, currentInterval, probeVia>>

Call_Health ==
    /\ Usable
    /\ \E resp \in Responses(UnreadBodies) :
          Returned("Health", "", "", "", 0, resp, Health(c, resp))
    /\ UNCHANGED <<c, pc, now, currentInterval, probeVia>>

Call_Exists ==
    /\ Usable
    /\ \E key \in Keys, resp \in Responses(LineBodies) :
          Returned("Exists", key, "", "", 0, resp, Exists(c, key, resp))
    /\ UNCHANGED <<c, pc, now, currentInterval, probeVia>>

Call_GetCurrentPage ==
    /\ Usable
    /\ Returned("GetCurrentPage", "", "", "", 0, NoResponse,
                Result(NoError, [NoOut EXCEPT !.num = GetCurrentPage(c)], <<>>))
    /\ UNCHANGED <<c, pc, now, currentInterval, probeVia>>

\* The mutators dereference their receiver: on the nil *CreditDB they panic
\* (nil pointer dereference) and the program is gone.
Call_WithHost ==
    /\ pc \in {"Ready", "Failed"}
    /\ \E host \in Hosts \cup {""} :
          /\ Returned("WithHost", "", "", host, 0, NoResponse,
                      Result(NoError, [NoOut EXCEPT !.isNil = c.ptr = "nil"], <<>>))
          /\ IF c.ptr = "nil"
             THEN pc' = "Panic" /\ c' = c
             ELSE pc' = pc /\ c' = WithHost(c, host)
    /\ UNCHANGED <<now, currentInterval, probeVia>>

Call_WithPage ==
    /\ pc \in {"Ready", "Failed"}
    /\ \E page \in Pages :
          /\ Returned("WithPage", "", "", "", page, NoResponse,
                      Result(NoError, [NoOut EXCEPT !.isNil = c.ptr = "nil"], <<>>))
          /\ IF c.ptr = "nil"
             THEN pc' = "Panic" /\ c' = c
             ELSE pc' = pc /\ c' = WithPage(c, page)
    /\ UNCHANGED <<now, currentInterval, probeVia>>

----------------------------------------------------------------------------
(* NewClient: the health gate.  backoff.Retry calls the operation, and on  *)
(* an error asks the ExponentialBackOff for the next interval and sleeps.  *)

InitialInterval == 100
MaxElapsedTime == 5000
MaxInterval == 30000
ResponseHeaderTimeout == 5000

\* How long one probe may take, ms.  A refused connection fails at once; a
\* status comes at once or after a while; a server that accepts and stays
\* silent holds the probe until the transport's ResponseHeaderTimeout runs
\* out (the probe's context is context.Background(), which sets no earlier
\* limit).
ProbeDurations(resp) ==
    IF resp.err = "timeout awaiting response headers" THEN {ResponseHeaderTimeout}
    ELSE IF resp.err # "" THEN {0}
    ELSE {0, 400}

\* rand.Float64() in percent: the ends and the middle of [0, 1)
Randoms == {0, 50, 100}

\* getRandomValueFromInterval with the default RandomizationFactor 0.5
RandomValueFromInterval(random, interval) ==
    LET delta == interval \div 2
        minInterval == interval - delta
        maxInterval == interval + delta
    IN  minInterval + (random * (maxInterval - minInterval)) \div 100

\* incrementCurrentInterval with the default Multiplier 1.5
IncrementCurrentInterval(interval) ==
    IF 3 * interval >= 2 * MaxInterval THEN MaxInterval ELSE (3 * interval) \div 2

\* clone.Health(context.Background()) on the probing client; a nil error ends
\* Retry and NewClient returns the client built on the other http.Client
Probe ==
    /\ pc = "Probing"
    /\ \E resp \in Answers(NetworkErrors, {Bare("eof")}) :
        \E d \in ProbeDurations(resp) :
          LET r == Health(NewCreditDB("clonedClient"), resp)
          IN  /\ probeVia' = "clonedClient"
              /\ IF r.err = NoError
                 THEN /\ pc' = "Ready"
                      /\ c' = NewCreditDB("client")
                      /\ now' = 0
                      /\ currentInterval' = 0
                      /\ ReturnedAfter(now + d, "NewClient", "", "", "", 0, resp,
                                       Result(NoError, [NoOut EXCEPT !.isNil = FALSE],
                                              r.wire))
                 ELSE /\ pc' = "Backoff"
                      /\ c' = c
                      /\ now' = now + d
                      /\ currentInterval' = currentInterval
                      /\ Returned("Health", "", "", "", 0, resp, r)

\* b.NextBackOff() and the timer (backoff/v4 since v4.1.1): draw the next
\* interval, grow currentInterval, and stop when the elapsed time plus the
\* next interval is over MaxElapsedTime; Retry then returns the probe's error
\* and NewClient returns nil.  Otherwise Retry sleeps for the interval.
BackOff ==
    /\ pc = "Backoff"
    /\ \E random \in Randoms :
          LET next == RandomValueFromInterval(random, currentInterval)
          IN  IF now + next > MaxElapsedTime
              THEN /\ pc' = "Failed"
                   /\ now' = 0
                   /\ currentInterval' = 0
                   /\ c' = NilClient
                   /\ ReturnedAfter(now, "NewClient", "", "", "", 0, ret.resp,
                                    Result(ret.err, NoOut, wire))
              ELSE /\ pc' = "Probing"
                   /\ now' = now + next
                   /\ currentInterval' = IncrementCurrentInterval(currentInterval)
                   /\ UNCHANGED <<c, ret, wire>>
    /\ UNCHANGED probeVia

----------------------------------------------------------------------------
(* creditdb.go: the older client.  The same requests, but no precondition  *)
(* on key or value, and every failure is handed back as it came (the       *)
(* transport's or the decoder's error) or as a fmt.Errorf text.            *)

\* an error that is not a *Error
Opaque(dyn, message) == [dyn |-> dyn, Message |-> message, Category |-> ""]

Errorf(format, status) == Opaque("*errors.errorString", format \o ToString(status))

SetLine_creditdb(cl, key, value, resp) ==
    LET req == Request("POST", cl.config.host, "/set",
                       MarshalSet(key, value, cl.config.currentPage),
                       "application/json")
    IN  IF ~URLParses(cl.config.host)
        THEN Result(Opaque("*url.Error", "parse"), NoOut, <<>>)
        ELSE IF resp.err # ""
             THEN Result(Opaque("*url.Error", resp.err), NoOut, Sent(cl.client, req))
        ELSE IF resp.StatusCode # StatusOK
             THEN Result(Errorf("set request failed with status code: ", resp.StatusCode),
                         NoOut, Sent(cl.client, req))
        ELSE Result(NoError, NoOut, Sent(cl.client, req))

GetLine_creditdb(cl, key, resp) ==
    LET req == Request("GET", cl.config.host, "/get",
                       MarshalKeyPage(key, cl.config.currentPage),
                       "application/json")
        dec == DecodeLine(resp.Body)
    IN  IF ~URLParses(cl.config.host)
        THEN Result(Opaque("*url.Error", "parse"), NoOut, <<>>)
        ELSE IF resp.err # ""
             THEN Result(Opaque("*url.Error", resp.err), NoOut, Sent(cl.client, req))
        ELSE IF resp.StatusCode = StatusNotFound
             THEN Result(Opaque("*errors.errorString", "key not found"),
                         NoOut, Sent(cl.client, req))
        ELSE IF resp.StatusCode # StatusOK
             THEN Result(Errorf("get request failed with status code: ", resp.StatusCode),
                         NoOut, Sent(cl.client, req))
        ELSE IF ~dec.ok
             THEN Result(Opaque("encoding/json error", resp.Body.syntax),
                         NoOut, Sent(cl.client, req))
        ELSE Result(NoError, [NoOut EXCEPT !.line = dec.data, !.isNil = FALSE],
                    Sent(cl.client, req))

GetAllLines_creditdb(cl, resp) ==
    LET req == Request("GET", cl.config.host, "/getall",
                       MarshalPage(cl.config.currentPage), "application/json")
        dec == DecodePage(resp.Body)
    IN  IF ~URLParses(cl.config.host)
        THEN Result(Opaque("*url.Error", "parse"), NoOut, <<>>)
        ELSE IF resp.err # ""
             THEN Result(Opaque("*url.Error", resp.err), NoOut, Sent(cl.client, req))
        ELSE IF ~dec.ok
             THEN Result(Opaque("encoding/json error", resp.Body.syntax),
                         NoOut, Sent(cl.client, req))
        ELSE IF dec.data.Status # "OK"
             THEN Result(Opaque("*errors.errorString",
                                "api returned status " \o dec.data.Status),
                         NoOut, Sent(cl.client, req))
        ELSE Result(NoError, [NoOut EXCEPT !.lines = dec.data.Result, !.isNil = FALSE],
                    Sent(cl.client, req))

DeleteLine_creditdb(cl, key, resp) ==
    LET req == Request("DELETE", cl.config.host, "/delete",
                       MarshalKeyPage(key, cl.config.currentPage),
                       "application/json")
    IN  IF ~URLParses(cl.config.host)
        THEN Result(Opaque("*url.Error", "parse"), NoOut, <<>>)
        ELSE IF resp.err # ""
             THEN Result(Opaque("*url.Error", resp.err), NoOut, Sent(cl.client, req))
        ELSE IF resp.StatusCode = StatusNotFound
             THEN Result(Opaque("*errors.errorString", "key not found"),
                         NoOut, Sent(cl.client, req))
        ELSE IF resp.StatusCode # StatusOK
             THEN Result(Errorf("del request failed with status code: ", resp.StatusCode),
                         NoOut, Sent(cl.client, req))
        ELSE Result(NoError, NoOut, Sent(cl.client, req))

Flush_creditdb(cl, resp) ==
    LET req == Request("DELETE", cl.config.host, "/flush",
                       MarshalPage(cl.config.currentPage), "application/json")
    IN  IF ~URLParses(cl.config.host)
        THEN Result(Opaque("*url.Error", "parse"), NoOut, <<>>)
        ELSE IF resp.err # ""
             THEN Result(Opaque("*url.Error", resp.err), NoOut, Sent(cl.client, req))
        ELSE IF resp.StatusCode # StatusOK
             THEN Result(Errorf("flush request failed with status code: ", resp.StatusCode),
                         NoOut, Sent(cl.client, req))
        ELSE Result(NoError, NoOut, Sent(cl.client, req))

Ping_creditdb(cl, resp) ==
    LET req == Request("GET", cl.config.host, "/ping", NoBody, "")
        dec == DecodePing(resp.Body)
    IN  IF ~URLParses(cl.config.host)
        THEN Result(Opaque("*url.Error", "parse"), NoOut, <<>>)
        ELSE IF resp.err # ""
             THEN Result(Opaque("*url.Error", resp.err), NoOut, Sent(cl.client, req))
        ELSE IF ~dec.ok
             THEN Result(Opaque("encoding/json error", resp.Body.syntax),
                         NoOut, Sent(cl.client, req))
        ELSE IF ~dec.found
             THEN Result(Opaque("*errors.errorString", "ping value not found in response"),
                         NoOut, Sent(cl.client, req))
        ELSE Result(NoError, [NoOut EXCEPT !.str = dec.pingValue], Sent(cl.client, req))

Health_creditdb(cl, resp) ==
    LET req == Request("GET", cl.config.host, "", NoBody, "")
    IN  IF ~URLParses(cl.config.host)
        THEN Result(Opaque("*url.Error", "parse"), NoOut, <<>>)
        ELSE IF resp.err # ""
             THEN Result(Opaque("*url.Error", resp.err), NoOut, Sent(cl.client, req))
        ELSE IF resp.StatusCode # StatusOK
             THEN Result(Errorf("health check failed with status code: ", resp.StatusCode),
                         NoOut, Sent(cl.client, req))
        ELSE Result(NoError, NoOut, Sent(cl.client, req))

Call_SetLine_creditdb ==
    /\ Usable
    /\ \E key \in Keys, value \in Values, resp \in Responses(UnreadBodies) :
          Returned("SetLine", key, value, "", 0, resp,
                   SetLine_creditdb(c, key, value, resp))
    /\ UNCHANGED <<c, pc, now, currentInterval, probeVia>>

Call_GetLine_creditdb ==
    /\ Usable
    /\ \E key \in Keys, resp \in Responses(LineBodies) :
          Returned("GetLine", key, "", "", 0, resp, GetLine_creditdb(c, key, resp))
    /\ UNCHANGED <<c, pc, now, currentInterval, probeVia>>

Call_GetAllLines_creditdb ==
    /\ Usable
    /\ \E resp \in Responses(PageBodies) :
          Returned("GetAllLines", "", "", "", 0, resp, GetAllLines_creditdb(c, resp))
    /\ UNCHANGED <<c, pc, now, currentInterval, probeVia>>

Call_DeleteLine_creditdb ==
    /\ Usable
    /\ \E key \in Keys, resp \in Responses(UnreadBodies) :
          Returned("DeleteLine", key, "", "", 0, resp,
                   DeleteLine_creditdb(c, key, resp))
    /\ UNCHANGED <<c, pc, now, currentInterval, probeVia>>

Call_Flush_creditdb ==
    /\ Usable
    /\ \E resp \in Responses(UnreadBodies) :
          Returned("Flush", "", "", "", 0, resp, Flush_creditdb(c, resp))
    /\ UNCHANGED <<c, pc, now, currentInterval, probeVia>>

Call_Ping_creditdb ==
    /\ Usable
    /\ \E resp \in Responses(PingBodies) :
          Returned("Ping", "", "", "", 0, resp, Ping_creditdb(c, resp))
    /\ UNCHANGED <<c, pc, now, currentInterval, probeVia>>

Call_Health_creditdb ==
    /\ Usable
    /\ \E resp \in Responses(UnreadBodies) :
          Returned("Health", "", "", "", 0, resp, Health_creditdb(c, resp))
    /\ UNCHANGED <<c, pc, now, currentInterval, probeVia>>

----------------------------------------------------------------------------
(* Specifications *)

NoCall == [op |-> "none", key |-> "", value |-> "", host |-> "", page |-> 0,
           resp |-> NoResponse, err |-> NoError, out |-> NoOut, took |-> 0]

\* NewClient is entered: backoff.Retry has reset the backoff
InitNewClient ==
    /\ c = NilClient
    /\ ret = NoCall
    /\ wire = <<>>
    /\ pc = "Probing"
    /\ now = 0
    /\ currentInterval = InitialInterval
    /\ probeVia = "nil"

\* NewClient, then the builder calls on what it returned
NextNewClient == Probe \/ BackOff \/ Call_WithHost \/ Call_WithPage

SpecNewClient == InitNewClient /\ [][NextNewClient]_vars

\* NewClient has returned a client, its first probe answered 200 at once
Init ==
    /\ c = NewCreditDB("client")
    /\ ret = [NoCall EXCEPT !.op = "NewClient",
                            !.resp = Response("", StatusOK, Bare("eof")),
                            !.out = [NoOut EXCEPT !.isNil = FALSE]]
    /\ wire = Sent("clonedClient", Request("GET", defaultHost, "", NoBody, ""))
    /\ pc = "Ready"
    /\ now = 0
    /\ currentInterval = 0
    /\ probeVia = "clonedClient"

\* the operations of the taxonomy client on a client in use
Next ==
    \/ Call_WithHost \/ Call_WithPage \/ Call_GetCurrentPage
    \/ Call_SetLine \/ Call_GetLine \/ Call_GetAllLines \/ Call_DeleteLine
    \/ Call_Flush \/ Call_Ping \/ Call_Health \/ Call_Exists

Spec == Init /\ [][Next]_vars

\* the operations of creditdb.go on a client in use
NextCreditdb ==
    \/ Call_WithHost \/ Call_WithPage
    \/ Call_SetLine_creditdb \/ Call_GetLine_creditdb \/ Call_GetAllLines_creditdb
    \/ Call_DeleteLine_creditdb \/ Call_Flush_creditdb \/ Call_Ping_creditdb
    \/ Call_Health_creditdb

SpecCreditdb == Init /\ [][NextCreditdb]_vars

----------------------------------------------------------------------------
(* Properties *)

Categories == {CategoryNotFound, CategoryBadRequest, CategoryTimeout,
               CategoryServiceUnavailable, CategoryInternalError}

IsDomainError(e) == e.dyn = "*Error" /\ e.Category \in Categories

ProtocolOps == {"SetLine", "GetLine", "GetAllLines", "DeleteLine", "Flush",
                "Ping", "Health", "Exists"}

\* the server answered the last call's request with a status and a body
Answered == Len(wire) = 1 /\ ret.resp.err = ""

\* C1: every call of a Protocol Layer operation either succeeds or returns a
\* Domain Error whose category is one of the five; never an error of another
\* kind.
C1_EveryFailureIsADomainError ==
    ret.op \in ProtocolOps => (ret.err = NoError \/ IsDomainError(ret.err))

\* C2: when the transport fails because the caller's deadline elapsed the
\* operation returns a Timeout error; when it fails for any other reason it
\* returns an InternalError.
C2_DeadlineIsTimeout ==
    (ret.op \in ProtocolOps /\ Len(wire) = 1 /\ ret.resp.err # "")
        => /\ IsDomainError(ret.err)
           /\ ret.err.Category = IF ret.resp.err = "context deadline exceeded"
                                 THEN CategoryTimeout
                                 ELSE CategoryInternalError

\* C3: NewClient returns a client if and only if a health probe answered 200
\* before the elapsed-time budget was used up; that client has the default
\* host, page 0 and an http.Client other than the one the probes went out
\* on; otherwise NewClient returns nil.
C3_ClientIffProbeSucceededWithinBudget ==
    ret.op = "NewClient"
        => /\ (c.ptr = "obj") <=> /\ ret.resp.err = ""
                                  /\ ret.resp.StatusCode = StatusOK
                                  /\ ret.took <= MaxElapsedTime
           /\ c.ptr = "obj" => /\ pc = "Ready"
                               /\ c.config = [host |-> defaultHost,
                                              currentPage |-> defaultPage]
                               /\ c.client # probeVia
           /\ c.ptr = "nil" => pc = "Failed"

\* C4: when construction fails, the time spent in NewClient is at most the
\* budget MaxElapsedTime plus one backoff interval (taken at its largest: the
\* next interval with the largest random factor), however the probes failed.
C4_FailureWithinBudgetPlusOneInterval ==
    [][(pc = "Backoff" /\ pc' = "Failed")
          => ret'.took <= MaxElapsedTime
                 + RandomValueFromInterval(100,
                       IncrementCurrentInterval(currentInterval))]_vars

\* C5: SetLine with an empty key or value, and GetLine or DeleteLine with an
\* empty key, return BadRequest and send nothing; GetAllLines and Flush
\* always send their request.
C5_PreconditionFailuresSendNothing ==
    /\ (ret.op = "SetLine" /\ (ret.key = "" \/ ret.value = ""))
          => (ret.err = ErrBadRequest /\ wire = <<>>)
    /\ (ret.op \in {"GetLine", "DeleteLine"} /\ ret.key = "")
          => (ret.err = ErrBadRequest /\ wire = <<>>)
    /\ ret.op \in {"GetAllLines", "Flush"} => Len(wire) = 1

\* C6: for every status the server answers with, the outcome follows the
\* per-operation table: SetLine succeeds iff 200, else BadRequest; GetLine
\* and DeleteLine give NotFound iff 404, BadRequest for any other non-200,
\* and succeed on 200 (GetLine with the decoded record, or InternalError
\* when the body does not decode); Flush and Health succeed iff 200, else
\* InternalError.
C6_StatusTable ==
    Answered =>
        LET s == ret.resp.StatusCode
            body == ret.resp.Body
        IN  /\ ret.op = "SetLine"
                  => ret.err = IF s = StatusOK THEN NoError ELSE ErrBadRequest
            /\ ret.op \in {"GetLine", "DeleteLine"}
                  => /\ (ret.err = ErrNotFound) <=> (s = StatusNotFound)
                     /\ s \notin {StatusOK, StatusNotFound} => ret.err = ErrBadRequest
            /\ (ret.op = "DeleteLine" /\ s = StatusOK) => ret.err = NoError
            /\ (ret.op = "GetLine" /\ s = StatusOK)
                  => IF DecodeLine(body).ok
                     THEN /\ ret.err = NoError
                          /\ ~ret.out.isNil
                          /\ ret.out.line = Line(StringField(body.key),
                                                 StringField(body.value))
                     ELSE ret.err = ErrInternalError /\ ret.out.isNil
            /\ ret.op \in {"Flush", "Health"}
                  => ret.err = IF s = StatusOK THEN NoError ELSE ErrInternalError

\* a Flush the server answered with 500: InternalError
C6_Witness ==
    /\ ret.op = "Flush"
    /\ Answered
    /\ ret.resp.StatusCode = 500
    /\ ret.err = ErrInternalError

\* C7: GetAllLines goes by the payload: whatever the HTTP status, a body that
\* decodes fails with BadRequest when its status member is not "OK" and
\* otherwise succeeds with the body's entries in order; a body that does not
\* decode gives InternalError.
C7_PayloadStatusDecides ==
    (ret.op = "GetAllLines" /\ Answered) =>
        LET body == ret.resp.Body
            entries == IF body.syntax = "object" /\ body.result.t = "array"
                       THEN body.result.v ELSE <<>>
        IN  IF ~DecodePage(body).ok THEN ret.err = ErrInternalError
            ELSE IF ~(body.syntax = "object" /\ body.status = JStr("OK"))
                 THEN ret.err = ErrBadRequest
            ELSE /\ ret.err = NoError
                 /\ Len(ret.out.lines) = Len(entries)
                 /\ \A i \in 1..Len(entries) :
                       ret.out.lines[i] = Line(StringField(entries[i].key),
                                               StringField(entries[i].value))

\* a 500 whose payload says "OK" and lists two records: returned in order
C7_Witness ==
    /\ ret.op = "GetAllLines"
    /\ Answered
    /\ ret.resp.StatusCode = 500
    /\ ret.err = NoError
    /\ ret.out.lines = <<Line("a", "x"), Line("b", "y")>>

\* the page member of a request's body (Absent when it has none)
PageOf(sent) == sent.req.body.page

\* WithPage sets the page and nothing else changes it; GetCurrentPage
\* returns it (the page starts at 0)
PageIsLastSet ==
    /\ ret'.op = "WithPage" => c'.config.currentPage = ret'.page
    /\ ret'.op # "WithPage" => c'.config.currentPage = c.config.currentPage
    /\ ret'.op = "GetCurrentPage" => ret'.out.num = c.config.currentPage

\* C8 as stated: every request, of set, get, get-all, delete, flush, ping
\* and health alike, carries the page most recently set by WithPage (0 if
\* never set), and GetCurrentPage returns that value.
C8_EveryRequestCarriesPage ==
    /\ c.config.currentPage = defaultPage
    /\ [][/\ PageIsLastSet
          /\ \A i \in 1..Len(wire') :
                PageOf(wire'[i]) = JNum(c.config.currentPage)]_vars

\* C8 amended: every request of set, get, get-all, delete and flush (and of
\* exists, which sends get's) carries the page most recently set by WithPage
\* (0 if never set); the requests of ping and health have no body and so no
\* page; GetCurrentPage returns that value.
C8_BodyRequestsCarryPage ==
    /\ c.config.currentPage = defaultPage
    /\ [][/\ PageIsLastSet
          /\ \A i \in 1..Len(wire') :
                IF ret'.op \in {"Ping", "Health", "NewClient"}
                THEN ~wire'[i].req.body.present /\ PageOf(wire'[i]) = Absent
                ELSE /\ wire'[i].req.body.present
                     /\ PageOf(wire'[i]) = JNum(c.config.currentPage)]_vars

\* a SetLine sent on page 2, after WithPage(2)
C8_Witness ==
    /\ ret.op = "SetLine"
    /\ Len(wire) = 1
    /\ c.config.currentPage = 2
    /\ PageOf(wire[1]) = JNum(2)

\* C9: Exists is GetLine translated: (true, nil) exactly when GetLine
\* succeeds, (false, nil) exactly when GetLine fails with NotFound, and
\* (false, e) with GetLine's error e otherwise; it sends what GetLine sends.
C9_ExistsFollowsGetLine ==
    ret.op = "Exists" =>
        LET got == GetLine(c, ret.key, ret.resp)
        IN  /\ wire = got.wire
            /\ (ret.out.ok /\ ret.err = NoError) <=> (got.err = NoError)
            /\ (~ret.out.ok /\ ret.err = NoError)
                  <=> (IsDomainError(got.err) /\ got.err.Category = CategoryNotFound)
            /\ (got.err # NoError /\ got.err.Category # CategoryNotFound)
                  => (~ret.out.ok /\ ret.err = got.err)
            /\ ret.key = "" => (ret.err = ErrBadRequest /\ wire = <<>>)
            /\ (Len(wire) = 1 /\ ret.resp.err # "") => ret.err = ErrInternalError
            /\ (Answered /\ ret.resp.StatusCode = StatusNotFound)
                  => (~ret.out.ok /\ ret.err = NoError)

\* Exists on a key the server answers 404 for: (false, nil), one request sent
C9_Witness ==
    /\ ret.op = "Exists"
    /\ Answered
    /\ ret.resp.StatusCode = StatusNotFound
    /\ ~ret.out.ok
    /\ ret.err = NoError

\* C10: on whatever NewClient returned, WithHost and WithPage are applied to
\* a client that is there (never to nil) and return that same client with
\* only the named field updated; WithHost("") leaves the host as it is.
C10_BuilderOnConstructorResult ==
    [][ret'.op \in {"WithHost", "WithPage"}
          => /\ c.ptr = "obj"
             /\ pc' # "Panic"
             /\ c'.ptr = c.ptr /\ c'.client = c.client
             /\ ret'.op = "WithPage"
                   => c'.config = [c.config EXCEPT !.currentPage = ret'.page]
             /\ ret'.op = "WithHost"
                   => c'.config = [c.config EXCEPT
                                     !.host = IF ret'.host = "" THEN c.config.host
                                              ELSE ret'.host]]_vars

====
